---- MODULE Spec2Model ----
(***************************************************************************)
(* Model of openssl/src/crypto/pkcs5.rs: the two key-derivation wrappers   *)
(* evp_bytes_to_key_pbkdf1_compatible and pbkdf2_hmac_sha1.  Each wrapper  *)
(* is a short sequence of steps (argument checks, ffi::init, buffer        *)
(* allocation, the foreign call, the check of its return value, the        *)
(* return); a call is modelled as a frame that moves through these steps.  *)
(* Integers keep their Rust/C widths: a usize is four 16-bit limbs, a      *)
(* c_int is a signed 32-bit value.                                         *)
(***************************************************************************)
EXTENDS Integers, Sequences, FiniteSets, TLC

VARIABLES pc, args, locals, trace, result, initialized, procAlive

vars == <<pc, args, locals, trace, result, initialized, procAlive>>

\* ------------------------------------------------------------------ bounds
\* Number of caller threads.
NThreads == 2
\* Largest small iteration count the callers try (besides the huge ones).
MaxCount == 2

Threads == 1..NThreads

\* ------------------------------------------------------- integer widths
\* A usize (64 bit) is a little-endian sequence of four 16-bit limbs.
LimbBase == 2^16
HalfLimb == 2^15

\* n as usize, for 0 <= n < 2^31.
ToUsize(n) == <<n % LimbBase, n \div LimbBase, 0, 0>>

TwoTo31 == <<0, HalfLimb, 0, 0>>
TwoTo32 == <<0, 0, 1, 0>>
TwoTo32Plus(n) == <<n, 0, 1, 0>>

\* `x as c_int` for a usize x: the low 32 bits, read as two's complement.
AsCInt(u) ==
    IF u[2] >= HalfLimb THEN u[1] + (LimbBase * (u[2] - LimbBase))
                        ELSE u[1] + (LimbBase * u[2])

\* `x as c_int` for a u32 x (here always below 2^31 in the inputs tried).
U32AsCInt(n) == AsCInt(ToUsize(n))

\* `x >= 1` for a usize x.
UsizeGe1(u) == u # <<0, 0, 0, 0>>

\* ------------------------------------------------------------ byte helpers
Min(a, b) == IF a < b THEN a ELSE b

Zeros(n) == [i \in 1..n |-> 0]

RECURSIVE XorBits(_, _, _)
XorBits(a, b, n) ==
    IF n = 0 THEN 0
    ELSE (((a % 2) + (b % 2)) % 2) + (2 * XorBits(a \div 2, b \div 2, n - 1))

XorBytes(x, y) == [i \in 1..Len(x) |-> XorBits(x[i], y[i], 8)]

be32(i) == <<(i \div 2^24) % 256, (i \div 2^16) % 256, (i \div 2^8) % 256, i % 256>>

\* --------------------------------------------------- external collaborators
\* The digest primitives: a stand-in with the digests' sizes, deterministic
\* and sensitive to every input byte and to its position.
DigestSize(md) ==
    CASE md = "MD5" -> 16
      [] md = "SHA1" -> 20
      [] md = "SHA256" -> 32

RECURSIVE Mix(_)
Mix(m) == IF m = <<>> THEN 17
          ELSE ((Mix(SubSeq(m, 1, Len(m) - 1)) * 31) + m[Len(m)] + 1) % 65521

Hash(md, m) ==
    LET h == Mix(m) + DigestSize(md)
    IN  [i \in 1..DigestSize(md) |-> (((h + (7 * i)) * (i + 2)) + (h \div 256)) % 256]

HmacSha1(key, msg) ==
    Hash("SHA1", key \o <<92>> \o Hash("SHA1", key \o <<54>> \o msg))

\* Cipher metadata of the library: EVP_CIPHER key_len and iv_len.
EVP_CIPHER_key_length(typ) ==
    CASE typ = "AES_128_CBC" -> 16
      [] typ = "AES_256_CBC" -> 32
      [] typ = "AES_256_ECB" -> 32
      [] typ = "RC4_128" -> 16

EVP_CIPHER_iv_length(typ) ==
    CASE typ = "AES_128_CBC" -> 16
      [] typ = "AES_256_CBC" -> 16
      [] typ = "AES_256_ECB" -> 0
      [] typ = "RC4_128" -> 0

\* crypto::symm_internal::evpc: (cipher, key length, block size).
evpc(typ) ==
    [evp |-> typ,
     keylen |-> EVP_CIPHER_key_length(typ),
     blocksize |-> IF typ = "RC4_128" THEN 0 ELSE 16]

\* Option<&[u8]>.
None == [some |-> FALSE, val |-> <<>>]
Some(b) == [some |-> TRUE, val |-> b]

\* The digest applied n more times (n <= 0: not at all).
RECURSIVE Rehash(_, _, _)
Rehash(md, d, n) == IF n <= 0 THEN d ELSE Rehash(md, Hash(md, d), n - 1)

\* The library's EVP_BytesToKey loop: each round hashes the previous round's
\* digest (none in the first round), the data and the salt, re-hashes the
\* digest while i < count (i from 1), then hands its bytes to the key until
\* nkey bytes are written and the rest to the iv until niv bytes are written.
RECURSIVE BytesToKeyLoop(_, _, _, _, _, _, _, _, _)
BytesToKeyLoop(md, data, saltBytes, count, prev, nkey, niv, keyOut, ivOut) ==
    LET md_buf == Rehash(md, Hash(md, prev \o data \o saltBytes), count - 1)
        mds == Len(md_buf)
        k == Min(nkey, mds)
        v == IF niv > 0 /\ k # mds THEN Min(niv, mds - k) ELSE 0
        keyOut2 == keyOut \o SubSeq(md_buf, 1, k)
        ivOut2 == ivOut \o SubSeq(md_buf, k + 1, k + v)
    IN  IF nkey - k = 0 /\ niv - v = 0
        THEN [key |-> keyOut2, iv |-> ivOut2]
        ELSE BytesToKeyLoop(md, data, saltBytes, count, md_buf,
                            nkey - k, niv - v, keyOut2, ivOut2)

\* buf with its first Len(w) bytes overwritten by w.
Overwrite(buf, w) == w \o SubSeq(buf, Len(w) + 1, Len(buf))

\* ffi::EVP_BytesToKey(evp, md, salt, data, datal, count, key, iv) when the
\* digest works: returns the cipher's key length, the buffers filled from
\* their start.  salt is a null pointer (None) or points at PKCS5_SALT_LEN
\* bytes; count >= 0 here.
EVP_BytesToKey(typ, md, salt, data, datal, count, keyBuf, ivBuf) ==
    LET w == BytesToKeyLoop(md, SubSeq(data, 1, datal),
                            IF salt.some THEN salt.val ELSE <<>>, count,
                            <<>>, EVP_CIPHER_key_length(typ),
                            EVP_CIPHER_iv_length(typ), <<>>, <<>>)
    IN  [ret |-> EVP_CIPHER_key_length(typ),
         key |-> Overwrite(keyBuf, w.key),
         iv |-> Overwrite(ivBuf, w.iv)]

\* One PBKDF2 block as the library computes it: U_1 from the salt and the
\* block index, then `for (j = 1; j < iter; j++)` one more HMAC each, XORed in.
RECURSIVE PBKDF2_Inner(_, _, _, _, _)
PBKDF2_Inner(pass, U, T, j, iter) ==
    IF j >= iter THEN T
    ELSE LET U2 == HmacSha1(pass, U)
         IN  PBKDF2_Inner(pass, U2, XorBytes(T, U2), j + 1, iter)

PBKDF2_Block(pass, salt, iter, i) ==
    LET U1 == HmacSha1(pass, salt \o be32(i))
    IN  PBKDF2_Inner(pass, U1, U1, 1, iter)

\* `while (tkeylen) { cplen = min(tkeylen, mdlen); ...; tkeylen -= cplen; i++ }`
RECURSIVE PBKDF2_Loop(_, _, _, _, _, _)
PBKDF2_Loop(pass, salt, iter, tkeylen, i, p) ==
    IF tkeylen = 0 THEN p
    ELSE LET cplen == Min(tkeylen, DigestSize("SHA1"))
         IN  PBKDF2_Loop(pass, salt, iter, tkeylen - cplen, i + 1,
                         p \o SubSeq(PBKDF2_Block(pass, salt, iter, i), 1, cplen))

\* ffi::PKCS5_PBKDF2_HMAC_SHA1(pass, passlen, salt, saltlen, iter, keylen, out)
\* when HMAC works and keylen >= 0: the bytes written at the start of out.
PKCS5_PBKDF2_HMAC_SHA1(pass, passlen, salt, saltlen, iter, keylen) ==
    PBKDF2_Loop(SubSeq(pass, 1, passlen), SubSeq(salt, 1, saltlen), iter, keylen, 1, <<>>)

\* --------------------------------------------------------------- constants
PKCS5_SALT_LEN == 8

\* ------------------------------------------------------------------ frames
NoVec == [cap |-> ToUsize(0), len |-> ToUsize(0), bytes |-> <<>>, stale |-> "none"]
NoSeen == [datal |-> 0, count |-> 0, passlen |-> 0, saltlen |-> 0, iter |-> 0, keylen |-> 0]

NoArgs == [fn |-> "none", typ |-> "none", md |-> "none", data |-> <<>>, salt |-> None,
           count |-> 0, pass |-> <<>>, iter |-> ToUsize(0), keylen |-> ToUsize(0)]
NoLocals == [keylen |-> 0, key |-> <<>>, iv |-> <<>>, ret |-> 0, out |-> NoVec, r |-> 0]
\* What the call has done so far: whether it ran ffi::init, how often it called
\* the primitive and with which arguments, whether it allocated the output
\* buffer, and the source line of the assertion that failed (0: none).
NoTrace == [didInit |-> FALSE, primCalls |-> 0, allocated |-> FALSE, panicAt |-> 0,
            seen |-> NoSeen]
NoResult == [kind |-> "none", key |-> <<>>, iv |-> <<>>, len |-> ToUsize(0),
             bytes |-> <<>>, tail |-> "none"]

\* What the memory of a fresh, unwritten allocation may hold.
Garbage == {"g0", "g1"}

Init ==
    /\ pc = [t \in Threads |-> "idle"]
    /\ args = [t \in Threads |-> NoArgs]
    /\ locals = [t \in Threads |-> NoLocals]
    /\ trace = [t \in Threads |-> NoTrace]
    /\ result = [t \in Threads |-> NoResult]
    /\ initialized = FALSE
    /\ procAlive = TRUE

CanCall(t) == procAlive /\ pc[t] \in {"idle", "returned", "panicked"}

Begin(t, a, start) ==
    /\ pc' = [pc EXCEPT ![t] = start]
    /\ args' = [args EXCEPT ![t] = a]
    /\ locals' = [locals EXCEPT ![t] = NoLocals]
    /\ trace' = [trace EXCEPT ![t] = NoTrace]
    /\ result' = [result EXCEPT ![t] = NoResult]
    /\ UNCHANGED <<initialized, procAlive>>

Panic(t, line) ==
    /\ pc' = [pc EXCEPT ![t] = "panicked"]
    /\ trace' = [trace EXCEPT ![t].panicAt = line]

\* ------------------------------------ evp_bytes_to_key_pbkdf1_compatible
Call_evp(t, typ, md, data, salt, count) ==
    /\ CanCall(t)
    /\ Begin(t, [NoArgs EXCEPT !.fn = "evp", !.typ = typ, !.md = md, !.data = data,
                               !.salt = salt, !.count = count], "e_salt")

\* A salt check that lets a salt shorter than PKCS5_SALT_LEN through.
SaltOk_AtMost(salt) == ~salt.some \/ Len(salt.val) <= PKCS5_SALT_LEN

\* assert_eq!(salt.len(), ffi::PKCS5_SALT_LEN as usize) for Some(salt).
SaltOk(salt) == ~salt.some \/ Len(salt.val) = PKCS5_SALT_LEN

E_SaltCheck(t) ==
    /\ procAlive /\ pc[t] = "e_salt"
    /\ IF SaltOk(args[t].salt)
       THEN pc' = [pc EXCEPT ![t] = "e_init"] /\ UNCHANGED trace
       ELSE Panic(t, 34)
    /\ UNCHANGED <<args, locals, result, initialized, procAlive>>

\* ffi::init(): a std::sync::Once around the library's initialization.
ffi_init(t, next) ==
    /\ initialized' = TRUE
    /\ trace' = [trace EXCEPT ![t].didInit = TRUE]
    /\ pc' = [pc EXCEPT ![t] = next]
    /\ UNCHANGED <<args, locals, result, procAlive>>

E_Init(t) == procAlive /\ pc[t] = "e_init" /\ ffi_init(t, "e_evpc")

E_Evpc(t) ==
    /\ procAlive /\ pc[t] = "e_evpc"
    /\ locals' = [locals EXCEPT ![t].keylen = evpc(args[t].typ).keylen]
    /\ pc' = [pc EXCEPT ![t] = "e_alloc"]
    /\ UNCHANGED <<args, trace, result, initialized, procAlive>>

\* let mut key = vec![0; keylen]; let mut iv = vec![0; keylen];
KeyBufLen(keylen) == keylen
IvBufLen(keylen) == keylen

E_Alloc(t) ==
    /\ procAlive /\ pc[t] = "e_alloc"
    /\ locals' = [locals EXCEPT ![t].key = Zeros(KeyBufLen(locals[t].keylen)),
                                ![t].iv = Zeros(IvBufLen(locals[t].keylen))]
    /\ trace' = [trace EXCEPT ![t].allocated = TRUE]
    /\ pc' = [pc EXCEPT ![t] = "e_call"]
    /\ UNCHANGED <<args, result, initialized, procAlive>>

\* The foreign call: the digest may fail (the primitive then returns 0).
E_Call(t) ==
    /\ procAlive /\ pc[t] = "e_call"
    /\ \E ok \in BOOLEAN :
         LET a == args[t]
             seen == [NoSeen EXCEPT !.datal = AsCInt(ToUsize(Len(a.data))),
                                    !.count = U32AsCInt(a.count)]
             got == EVP_BytesToKey(a.typ, a.md, a.salt, a.data, seen.datal,
                                   seen.count, locals[t].key, locals[t].iv)
         IN  /\ trace' = [trace EXCEPT ![t].primCalls = 1, ![t].seen = seen]
             /\ locals' = IF ok
                          THEN [locals EXCEPT ![t].ret = got.ret, ![t].key = got.key,
                                              ![t].iv = got.iv]
                          ELSE [locals EXCEPT ![t].ret = 0]
    /\ pc' = [pc EXCEPT ![t] = "e_assert"]
    /\ UNCHANGED <<args, result, initialized, procAlive>>

\* assert!(ret == keylen as c_int)
RetOk(ret, keylen) == ret = U32AsCInt(keylen)

E_Assert(t) ==
    /\ procAlive /\ pc[t] = "e_assert"
    /\ IF RetOk(locals[t].ret, locals[t].keylen)
       THEN pc' = [pc EXCEPT ![t] = "e_ret"] /\ UNCHANGED trace
       ELSE Panic(t, 58)
    /\ UNCHANGED <<args, locals, result, initialized, procAlive>>

E_Return(t) ==
    /\ procAlive /\ pc[t] = "e_ret"
    /\ result' = [result EXCEPT ![t] = [NoResult EXCEPT !.kind = "KeyIvPair",
                                                        !.key = locals[t].key,
                                                        !.iv = locals[t].iv]]
    /\ pc' = [pc EXCEPT ![t] = "returned"]
    /\ UNCHANGED <<args, locals, trace, initialized, procAlive>>

\* ------------------------------------------------------- pbkdf2_hmac_sha1
Call_pbkdf2(t, pass, salt, iter, keylen) ==
    /\ CanCall(t)
    /\ Begin(t, [NoArgs EXCEPT !.fn = "pbkdf2", !.pass = pass, !.salt = Some(salt),
                               !.iter = iter, !.keylen = keylen], "p_iter")

\* assert!(iter >= 1)
IterOk(iter) == UsizeGe1(iter)

P_AssertIter(t) ==
    /\ procAlive /\ pc[t] = "p_iter"
    /\ IF IterOk(args[t].iter)
       THEN pc' = [pc EXCEPT ![t] = "p_keylen"] /\ UNCHANGED trace
       ELSE Panic(t, 70)
    /\ UNCHANGED <<args, locals, result, initialized, procAlive>>

\* The key length check left out.
KeylenOk_Unchecked(keylen) == TRUE

\* assert!(keylen >= 1)
KeylenOk(keylen) == UsizeGe1(keylen)

P_AssertKeylen(t) ==
    /\ procAlive /\ pc[t] = "p_keylen"
    /\ IF KeylenOk(args[t].keylen)
       THEN pc' = [pc EXCEPT ![t] = "p_alloc"] /\ UNCHANGED trace
       ELSE Panic(t, 71)
    /\ UNCHANGED <<args, locals, result, initialized, procAlive>>

\* Vec::with_capacity(keylen): keylen bytes of unwritten memory, length 0.
P_Alloc(t) ==
    /\ procAlive /\ pc[t] = "p_alloc"
    /\ \E g \in Garbage :
         locals' = [locals EXCEPT ![t].out = [cap |-> args[t].keylen, len |-> ToUsize(0),
                                              bytes |-> <<>>, stale |-> g]]
    /\ trace' = [trace EXCEPT ![t].allocated = TRUE]
    /\ pc' = [pc EXCEPT ![t] = "p_init"]
    /\ UNCHANGED <<args, result, initialized, procAlive>>

P_Init(t) == procAlive /\ pc[t] = "p_init" /\ ffi_init(t, "p_call")

\* The foreign call, its numeric arguments narrowed with `as c_int`.  HMAC may
\* fail (the primitive returns 0); a negative key length makes the library's
\* memcpy run off the buffer and the process dies.
P_Call(t) ==
    /\ procAlive /\ pc[t] = "p_call"
    /\ \E ok \in BOOLEAN :
         LET a == args[t]
             seen == [NoSeen EXCEPT !.passlen = AsCInt(ToUsize(Len(a.pass))),
                                    !.saltlen = AsCInt(ToUsize(Len(a.salt.val))),
                                    !.iter = AsCInt(a.iter),
                                    !.keylen = AsCInt(a.keylen)]
         IN  /\ trace' = [trace EXCEPT ![t].primCalls = 1, ![t].seen = seen]
             /\ IF ~ok
                THEN /\ locals' = [locals EXCEPT ![t].r = 0]
                     /\ pc' = [pc EXCEPT ![t] = "p_check"]
                     /\ UNCHANGED procAlive
                ELSE IF seen.keylen < 0
                THEN /\ pc' = [pc EXCEPT ![t] = "crashed"]
                     /\ procAlive' = FALSE
                     /\ UNCHANGED locals
                ELSE /\ locals' = [locals EXCEPT
                            ![t].r = 1,
                            ![t].out.bytes = PKCS5_PBKDF2_HMAC_SHA1(
                                a.pass, seen.passlen, a.salt.val, seen.saltlen,
                                seen.iter, seen.keylen)]
                     /\ pc' = [pc EXCEPT ![t] = "p_check"]
                     /\ UNCHANGED procAlive
    /\ UNCHANGED <<args, result, initialized>>

\* A return-value check that takes 0 for success.
PrimOk_NonNegative(r) == r >= 0

\* if r != 1 { panic!(); }
PrimOk(r) == r = 1

P_Check(t) ==
    /\ procAlive /\ pc[t] = "p_check"
    /\ IF PrimOk(locals[t].r)
       THEN pc' = [pc EXCEPT ![t] = "p_ret"] /\ UNCHANGED trace
       ELSE Panic(t, 83)
    /\ UNCHANGED <<args, locals, result, initialized, procAlive>>

\* out.set_len(keylen); out -- the vector's first Len(bytes) bytes are the ones
\* the primitive wrote, the others (tail) are whatever the allocation held.
P_Return(t) ==
    /\ procAlive /\ pc[t] = "p_ret"
    /\ LET out == [locals[t].out EXCEPT !.len = args[t].keylen]
       IN  /\ locals' = [locals EXCEPT ![t].out = out]
           /\ result' = [result EXCEPT ![t] =
                  [NoResult EXCEPT !.kind = "Vec", !.len = out.len, !.bytes = out.bytes,
                                   !.tail = IF out.len = ToUsize(Len(out.bytes))
                                            THEN "none" ELSE out.stale]]
    /\ pc' = [pc EXCEPT ![t] = "returned"]
    /\ UNCHANGED <<args, trace, initialized, procAlive>>

\* ------------------------------------------------------------------ inputs
Salt8 == <<16, 34, 19, 23, 141, 4, 207, 221>>
SymmTypes == {"AES_128_CBC", "AES_256_CBC", "AES_256_ECB", "RC4_128"}
HashTypes == {"MD5", "SHA1", "SHA256"}
Datas == {<<>>, <<143, 210, 75>>}
Salts == {None, Some(SubSeq(Salt8, 1, 7)), Some(Salt8), Some(Salt8 \o <<9>>)}
Counts == 0..MaxCount
Passes == {<<>>, <<112, 119>>}
PSalts == {<<>>, <<115, 97>>}
Iters == {ToUsize(n) : n \in 0..MaxCount} \cup {TwoTo31, TwoTo32, TwoTo32Plus(1)}
KeyLens == {ToUsize(0), ToUsize(1), ToUsize(20), ToUsize(21), ToUsize(41),
            TwoTo31, TwoTo32, TwoTo32Plus(1)}

Steps(t) ==
    \/ E_SaltCheck(t)
    \/ E_Init(t)
    \/ E_Evpc(t)
    \/ E_Alloc(t)
    \/ E_Call(t)
    \/ E_Assert(t)
    \/ E_Return(t)
    \/ P_AssertIter(t)
    \/ P_AssertKeylen(t)
    \/ P_Alloc(t)
    \/ P_Init(t)
    \/ P_Call(t)
    \/ P_Check(t)
    \/ P_Return(t)

\* One caller, every input.
Next ==
    \/ \E typ \in SymmTypes, md \in HashTypes, data \in Datas, salt \in Salts,
          count \in Counts : Call_evp(1, typ, md, data, salt, count)
    \/ \E pass \in Passes, salt \in PSalts, iter \in Iters, keylen \in KeyLens :
          Call_pbkdf2(1, pass, salt, iter, keylen)
    \/ Steps(1)

Spec == Init /\ [][Next]_vars

\* Several callers at once, fewer inputs.
NextConc ==
    \E t \in Threads :
        \/ \E salt \in {None, Some(Salt8)}, count \in 1..MaxCount :
              Call_evp(t, "AES_256_CBC", "SHA1", <<143, 210, 75>>, salt, count)
        \/ \E iter \in {ToUsize(1), TwoTo32Plus(1)}, keylen \in {ToUsize(21), TwoTo32Plus(1)} :
              Call_pbkdf2(t, <<112, 119>>, <<115, 97>>, iter, keylen)
        \/ Steps(t)

SpecConc == Init /\ [][NextConc]_vars

\* ------------------------------------------------------------ the claims
Returned(t, fn) == pc[t] = "returned" /\ args[t].fn = fn

\* n as a count of bytes or iterations, for a usize below 2^16.
Small(u) == u[2] = 0 /\ u[3] = 0 /\ u[4] = 0

\* C1: whenever evp_bytes_to_key_pbkdf1_compatible returns, the key has the
\* cipher's key length and the iv has the cipher's IV length.
C1_KeyIvLengths ==
    \A t \in Threads :
        Returned(t, "evp") =>
            /\ Len(result[t].key) = EVP_CIPHER_key_length(args[t].typ)
            /\ Len(result[t].iv) = EVP_CIPHER_iv_length(args[t].typ)

\* C2: whenever pbkdf2_hmac_sha1 returns, the vector holds exactly keylen
\* bytes, all of them written by the derivation.
C2_ExactlyKeylenWrittenBytes ==
    \A t \in Threads :
        Returned(t, "pbkdf2") =>
            /\ result[t].len = args[t].keylen
            /\ ToUsize(Len(result[t].bytes)) = args[t].keylen
            /\ result[t].tail = "none"

\* PBKDF2 as RFC 2898 states it: U_1 = PRF(P, S || INT(i)), U_j = PRF(P, U_{j-1}),
\* T_i = U_1 xor ... xor U_c, DK = first L bytes of T_1 || ... || T_ceil(L/20).
RECURSIVE RefU(_, _, _, _)
RefU(P, S, i, j) ==
    IF j = 1 THEN HmacSha1(P, S \o be32(i)) ELSE HmacSha1(P, RefU(P, S, i, j - 1))

RECURSIVE RefXorU(_, _, _, _)
RefXorU(P, S, i, c) ==
    IF c = 1 THEN RefU(P, S, i, 1) ELSE XorBytes(RefXorU(P, S, i, c - 1), RefU(P, S, i, c))

RECURSIVE RefConcatT(_, _, _, _)
RefConcatT(P, S, c, n) ==
    IF n = 0 THEN <<>> ELSE RefConcatT(P, S, c, n - 1) \o RefXorU(P, S, n, c)

RefDK(P, S, c, L) == SubSeq(RefConcatT(P, S, c, (L + 19) \div 20), 1, L)

\* C3: for iteration count c >= 1 and output length L >= 1 (c among the small
\* counts, whose reference value can be computed), pbkdf2_hmac_sha1 returns
\* the first L bytes of T_1 || ... || T_ceil(L/20).
C3_Pbkdf2Value ==
    \A t \in Threads :
        (Returned(t, "pbkdf2") /\ Small(args[t].iter)) =>
            /\ result[t].tail = "none"
            /\ ToUsize(Len(result[t].bytes)) = args[t].keylen
            /\ result[t].bytes = RefDK(args[t].pass, args[t].salt.val,
                                       args[t].iter[1], Len(result[t].bytes))

\* The legacy derivation as the specification states it: D_0 empty,
\* D_i = hash applied count times, first to D_{i-1} || secret || salt.
RECURSIVE RefHashTimes(_, _, _)
RefHashTimes(md, m, n) ==
    IF n = 1 THEN Hash(md, m) ELSE Hash(md, RefHashTimes(md, m, n - 1))

RECURSIVE RefD(_, _, _, _, _)
RefD(md, secret, salt, count, i) ==
    IF i = 0 THEN <<>>
    ELSE RefHashTimes(md, RefD(md, secret, salt, count, i - 1) \o secret \o salt, count)

RECURSIVE RefConcatD(_, _, _, _, _)
RefConcatD(md, secret, salt, count, n) ==
    IF n = 0 THEN <<>>
    ELSE RefConcatD(md, secret, salt, count, n - 1) \o RefD(md, secret, salt, count, n)

\* C4: for count >= 1, the returned key is the first key_length bytes and the
\* returned iv the next iv_length bytes of D_1 || D_2 || ..., as many blocks
\* as key_length + iv_length needs.
C4_LegacyValue ==
    \A t \in Threads :
        (Returned(t, "evp") /\ args[t].count >= 1) =>
            LET a == args[t]
                nk == EVP_CIPHER_key_length(a.typ)
                ni == EVP_CIPHER_iv_length(a.typ)
                ds == DigestSize(a.md)
                D == RefConcatD(a.md, a.data, a.salt.val, a.count,
                                (nk + ni + ds - 1) \div ds)
            IN  /\ result[t].key = SubSeq(D, 1, nk)
                /\ result[t].iv = SubSeq(D, nk + 1, nk + ni)

BadSalt(t) == args[t].fn = "evp" /\ args[t].salt.some /\ Len(args[t].salt.val) # 8

\* C5: a call with a present salt that is not 8 bytes long panics at the salt
\* assertion, before ffi::init and before the primitive is called, and
\* returns nothing; a call without salt never fails that assertion.
C5_BadSaltRejectedFirst ==
    \A t \in Threads :
        /\ BadSalt(t) =>
              /\ pc[t] \in {"e_salt", "panicked"}
              /\ pc[t] = "panicked" => trace[t].panicAt = 34
              /\ ~trace[t].didInit
              /\ trace[t].primCalls = 0
              /\ result[t] = NoResult
        /\ (args[t].fn = "evp" /\ ~args[t].salt.some) => trace[t].panicAt # 34

C5_Witness ==
    \E t \in Threads :
        BadSalt(t) /\ Len(args[t].salt.val) = 7 /\ pc[t] = "panicked" /\ initialized

\* C6: a call of evp_bytes_to_key_pbkdf1_compatible with count 0 fails: it
\* never returns a KeyIvPair.
C6_ZeroCountRejected ==
    \A t \in Threads :
        (args[t].fn = "evp" /\ args[t].count = 0) =>
            pc[t] # "returned" /\ result[t] = NoResult

ZeroParam(t) ==
    /\ args[t].fn = "pbkdf2"
    /\ (args[t].iter = ToUsize(0) \/ args[t].keylen = ToUsize(0))

\* C7: a call of pbkdf2_hmac_sha1 with iteration count 0 or output length 0
\* panics before ffi::init, before the primitive and before the output buffer
\* is allocated, and returns nothing; with both at least 1 neither assertion
\* fails, whatever the password and the salt (empty ones included).
C7_ZeroParamsRejectedFirst ==
    \A t \in Threads :
        /\ ZeroParam(t) =>
              /\ pc[t] \in {"p_iter", "p_keylen", "panicked"}
              /\ ~trace[t].didInit
              /\ trace[t].primCalls = 0
              /\ ~trace[t].allocated
              /\ locals[t].out = NoVec
              /\ result[t] = NoResult
        /\ (args[t].fn = "pbkdf2" /\ ~ZeroParam(t)) => trace[t].panicAt \notin {70, 71}

C7_Witness ==
    \E t \in Threads :
        /\ ZeroParam(t) /\ args[t].iter # ToUsize(0)
        /\ pc[t] = "panicked" /\ trace[t].panicAt = 71
        /\ initialized

\* The primitive has returned and reported failure.
PrimitiveFailed(t) ==
    /\ trace[t].primCalls = 1
    /\ pc[t] # "crashed"
    /\ \/ args[t].fn = "pbkdf2" /\ locals[t].r # 1
       \/ args[t].fn = "evp" /\ locals[t].ret # EVP_CIPHER_key_length(args[t].typ)

\* C8: when the primitive reports failure the call panics at the check of the
\* return value and hands no output to the caller.
C8_NoOutputOnPrimitiveFailure ==
    \A t \in Threads :
        PrimitiveFailed(t) =>
            /\ pc[t] \in {"e_assert", "p_check", "panicked"}
            /\ pc[t] = "panicked" => trace[t].panicAt \in {58, 83}
            /\ result[t] = NoResult

C8_Witness ==
    \E t \in Threads :
        PrimitiveFailed(t) /\ args[t].fn = "pbkdf2" /\ pc[t] = "panicked"
            /\ locals[t].out.cap = ToUsize(20)

\* C9: two calls with the same arguments that both return, in whatever order
\* and interleaving they ran, return the same output.
C9_SameArgsSameOutput ==
    \A t1, t2 \in Threads :
        (pc[t1] = "returned" /\ pc[t2] = "returned" /\ args[t1] = args[t2]) =>
            result[t1] = result[t2]

\* C10: the numbers the primitive receives are the caller's numbers.
C10_NarrowingKeepsValues ==
    \A t \in Threads :
        trace[t].primCalls = 1 =>
            LET a == args[t]
                seen == trace[t].seen
            IN  /\ a.fn = "pbkdf2" =>
                      /\ seen.iter >= 0 /\ ToUsize(seen.iter) = a.iter
                      /\ seen.keylen >= 0 /\ ToUsize(seen.keylen) = a.keylen
                      /\ seen.passlen = Len(a.pass)
                      /\ seen.saltlen = Len(a.salt.val)
                /\ a.fn = "evp" =>
                      /\ seen.count = a.count
                      /\ seen.datal = Len(a.data)
====
